---- MODULE Spec2Model ----
(***************************************************************************)
(* Offline action queue and synchronisation of the useOffline hook         *)
(* (src/frontend/src/hooks/useVoice.js, lines 87-290) together with the    *)
(* service worker's background-sync notification                           *)
(* (src/frontend/src/api/auth.js, lines 309-325).                          *)
(*                                                                         *)
(* Granularity.  JavaScript runs each handler to its next `await`, so one  *)
(* action of the model is one such run: the call of a handler up to its    *)
(* first suspension, or the completion of an IndexedDB request / of a      *)
(* fetch together with the continuation it resumes.  IndexedDB requests on *)
(* the one object store complete in the order they were issued (a          *)
(* readwrite transaction excludes every other transaction on its scope);   *)
(* `idb` is that order.  A request either succeeds with its whole effect   *)
(* or fails with none.  fetch responses arrive in any order.               *)
(***************************************************************************)
EXTENDS Integers, Sequences, FiniteSets, TLC

\* ---- bounds of the model ----
MaxActions == 2      \* records ever appended (keys 1..MaxActions)
MaxPasses  == 2      \* sync passes that can be in flight together
MaxStarts  == 2      \* sync passes ever started
MaxFaults  == 1      \* storage failures (open denied, request error)
MaxCrashes == 1      \* process restarts
MaxEvents  == 2      \* window events queued and not yet dispatched
\* unmounts of the component that uses the hook
MaxUnmounts == 1

\* ---- program constants ----
DB_VERSION == 1

\* the request the UI queues (type, endpoint, method, data: the records differ
\* by their ids), and the outcomes of one fetch
Data     == {"a"}
Outcomes == {"ok", "http_error", "network_error"}

VARIABLES
    \* persisted by the browser, survives a restart
    dbVersion,      \* version of the 'lifepilot-offline' database, 0 = absent
    store,          \* records of the 'pending-actions' object store
    keyGen,         \* the store's autoIncrement key generator
    \* module level
    db,             \* `let db`: TRUE once a connection is cached
    \* platform
    navOnline,      \* navigator.onLine
    events,         \* window 'online'/'offline' events queued by the
                    \* platform and not yet dispatched, oldest first
    \* React state of the hook
    isOnline, pendingCount, isSyncing,
    closureSyncing, \* isSyncing as captured by the latest render's callbacks
    \* asynchronous calls in flight
    pass,           \* syncPendingActions invocations, by slot
    enq,            \* the queueAction invocation
    ref,            \* the mount effect's refreshPendingCount invocation
    idb,            \* tasks with a pending IndexedDB request, oldest first
    \* history
    okCount,        \* id -> ok responses received for it (capped at 2)
    appended,       \* records for which addPendingAction resolved, with the
                    \* number of restarts before it
    removed,        \* ids whose delete request succeeded
    lastRead,       \* outcome of the last count read
    \* observations, kept for the one state after the event
    lastEnq,        \* what the queueAction that just returned returned
    ended,          \* summary of the pass that just finished
    seen,           \* the trigger that just started a pass, or the
                    \* indexedDB.open that just completed
    starts, faults, crashes,
    \* the component using the hook
    mounted,        \* an instance of the hook is mounted
    leaked          \* service-worker 'message' listeners of instances that
                    \* were unmounted

durable == <<dbVersion, store, keyGen>>
hook    == <<isOnline, pendingCount, isSyncing, closureSyncing>>
tasks   == <<pass, enq, ref, idb>>
hist    == <<okCount, appended, removed, lastRead>>
obs     == <<lastEnq, ended, seen>>
counts  == <<starts, faults, crashes>>
life    == <<mounted, leaked>>
vars    == <<durable, db, navOnline, events, hook, tasks, hist, obs,
             counts, life>>

\* ---- helpers ----
Min(S) == CHOOSE x \in S : \A y \in S : x <= y
Ids(S) == {r.id : r \in S}
SeqIds(s) == [k \in 1..Len(s) |-> s[k].id]
Range(s) == {s[k] : k \in 1..Len(s)}
FaultChoice == IF faults < MaxFaults THEN {FALSE, TRUE} ELSE {FALSE}

\* ---- the Durable Queue Store ----

\* request.onupgradeneeded: runs only when the stored version is older than
\* DB_VERSION; creates the object store if it is missing, keeps it otherwise.
\* (The store is created by the first upgrade, so it is missing exactly when
\* the database is absent, version 0.)
onupgradeneeded(version, s) == IF version = 0 THEN {} ELSE s

\* openDB with the object store created anew on every open.
openDBMut(version, s) == onupgradeneeded(0, s)

\* indexedDB.open(DB_NAME, DB_VERSION) succeeding: the records the
\* connection sees.
openDB(version, s) ==
    IF version < DB_VERSION THEN onupgradeneeded(version, s) ELSE s

\* The id taken from the number of records instead of the key generator.
nextKeyMut(gen, s) == Cardinality(s) + 1

\* createObjectStore(..., { keyPath: 'id', autoIncrement: true }) (line 119):
\* the key of a new record is the current number of the store's key
\* generator, which only ever increases, whatever the store s holds.
nextKey(gen, s) == gen

\* store.add({...action, timestamp}): the key generator assigns the id.
addPendingAction(s, key, d) == s \cup {[id |-> key, data |-> d]}

\* getPendingActions reading the store with a 'prev' cursor.
RECURSIVE getPendingActionsMut(_)
getPendingActionsMut(s) ==
    IF s = {} THEN <<>>
    ELSE LET m == CHOOSE r \in s : \A q \in s : r.id >= q.id
         IN  <<m>> \o getPendingActionsMut(s \ {m})

\* store.getAll(): every record, in ascending key order.
RECURSIVE getPendingActions(_)
getPendingActions(s) ==
    IF s = {} THEN <<>>
    ELSE LET m == CHOOSE r \in s : \A q \in s : r.id <= q.id
         IN  <<m>> \o getPendingActions(s \ {m})

\* removePendingAction deleting the key range up to the key.
removePendingActionMut(s, key) == {r \in s : r.id > key}

\* store.delete(id): removes the record with that key; a missing key is a
\* successful no-op.
removePendingAction(s, key) == {r \in s : r.id # key}

\* initDB(): resolves at once with the cached handle, otherwise the caller
\* waits for indexedDB.open before its request `req` is issued.
initDB(req) == IF db THEN [pc |-> req, after |-> "none"]
                     ELSE [pc |-> "open", after |-> req]

\* ---- task records ----
\* owner: whose syncPendingActions runs in the slot: "hook" the mounted
\* instance, "gone" an instance unmounted since the call, "leaked" an
\* instance that was unmounted before the call, "tab" another client
IdlePass == [pc |-> "idle", after |-> "none", snap |-> <<>>,
             i |-> 0, calls |-> <<>>, ok |-> {}, failed |-> {},
             delFailed |-> {}, enqueued |-> {}, threw |-> FALSE,
             owner |-> "hook"]
IdleEnq  == [pc |-> "idle", after |-> "none", data |-> "none", id |-> 0,
             gained |-> 0]
IdleRef  == [pc |-> "idle", after |-> "none"]
NoEnq    == [ret |-> "none", id |-> 0, data |-> "none", gained |-> 0]
NoPass   == [done |-> FALSE, snapOk |-> FALSE, snap |-> <<>>, calls |-> <<>>,
             ok |-> {}, failed |-> {}, delFailed |-> {}, enqueued |-> {},
             storeIds |-> {}, threw |-> FALSE]
\* src: "online", "hint", "message", "manual" for the caller of a
\* syncPendingActions that started a pass (and for every dispatched 'online'
\* event), "open" for a completed indexedDB.open
NoSeen   == [src |-> "none", tag |-> "none", isOnline |-> FALSE,
             onLine |-> FALSE, started |-> FALSE, second |-> FALSE,
             denied |-> FALSE]

PassTask(k) == <<"pass", k>>
EnqTask     == <<"enq", 0>>
RefTask     == <<"ref", 0>>

IdbPcs == {"open", "getAll", "add", "delete", "count"}
\* the queue of pending IndexedDB requests after task t's request completed
\* and t went on to program counter pc
IdbAfter(t, pc) == IF pc \in IdbPcs THEN Append(Tail(idb), t) ELSE Tail(idb)

\* An indexedDB.open request of initDB has completed: denied (onerror), or
\* with a connection that is new although `db` already held one.
Opened(fail) ==
    seen' = [NoSeen EXCEPT !.src = "open", !.denied = fail,
                           !.second = ~fail /\ db]

\* The hook starting with isOnline true whatever the platform says.
initialOnlineMut(nav) == TRUE

\* useState(navigator.onLine) (line 182): the first isOnline.
initialOnline(nav) == nav

Init ==
    /\ dbVersion = 0 /\ store = {} /\ keyGen = 1
    /\ db = FALSE
    /\ navOnline \in BOOLEAN /\ events = <<>>
    /\ isOnline = initialOnline(navOnline)
    /\ pendingCount = 0 /\ isSyncing = FALSE
    /\ closureSyncing = FALSE
    /\ pass = [k \in 1..MaxPasses |-> IdlePass]
    /\ enq = IdleEnq
    \* the mount effect has called refreshPendingCount()
    /\ ref = [pc |-> "open", after |-> "count"]
    /\ idb = <<RefTask>>
    /\ okCount = [n \in 1..MaxActions |-> 0]
    /\ appended = {} /\ removed = {}
    /\ lastEnq = NoEnq /\ ended = NoPass /\ seen = NoSeen
    /\ lastRead = "none"
    /\ starts = 0 /\ faults = 0 /\ crashes = 0
    /\ mounted = TRUE /\ leaked = 0

\* ---- the Sync Coordinator: syncPendingActions ----

\* The state setters of useState (lines 182-184) called by the pass in slot
\* k reach the hook's state only while the instance that made the call is
\* mounted.
Attached(k) == pass[k].owner = "hook"

FreeSlots == {k \in 1..MaxPasses : pass[k].pc = "idle"}

\* syncPendingActions without the connectivity test of its guard.
syncPendingActionsMut(onLine, syncing) ==
    IF syncing
    THEN UNCHANGED <<isSyncing, pass, idb, starts>>
    ELSE /\ starts < MaxStarts
         /\ FreeSlots # {}
         /\ LET k == Min(FreeSlots)
                c == initDB("getAll")
            IN  /\ pass' = [pass EXCEPT ![k] =
                       [IdlePass EXCEPT !.pc = c.pc, !.after = c.after]]
                /\ idb' = Append(idb, PassTask(k))
         /\ isSyncing' = TRUE
         /\ starts' = starts + 1

\* The guard and the synchronous head of syncPendingActions (lines 243-248):
\* `onLine` is navigator.onLine at the call, `syncing` the isSyncing value of
\* the closure that is called.
syncPendingActions(onLine, syncing) ==
    IF ~onLine \/ syncing
    THEN UNCHANGED <<isSyncing, pass, idb, starts>>
    ELSE /\ starts < MaxStarts
         /\ FreeSlots # {}
         /\ LET k == Min(FreeSlots)
                c == initDB("getAll")
            IN  /\ pass' = [pass EXCEPT ![k] =
                       [IdlePass EXCEPT !.pc = c.pc, !.after = c.after]]
                /\ idb' = Append(idb, PassTask(k))
         /\ isSyncing' = TRUE
         /\ starts' = starts + 1

\* ResponseOk with any response, whatever its status, taken as a success.
ResponseOkMut(outcome) == outcome \in {"ok", "http_error"}

\* response.ok (line 258)
ResponseOk(outcome) == outcome = "ok"

\* The summary of pass p as it finishes, s being the store at that moment.
Summary(p, snapOk, s) ==
    [done |-> TRUE, snapOk |-> snapOk, snap |-> SeqIds(p.snap),
     calls |-> p.calls, ok |-> p.ok, failed |-> p.failed,
     delFailed |-> p.delFailed, enqueued |-> p.enqueued,
     storeIds |-> Ids(s), threw |-> p.threw \/ ~snapOk]

\* The pass going to refreshPendingCount without entering the loop.
NextIterationMut(p) ==
    LET c == initDB("count")
    IN  [p EXCEPT !.pc = c.pc, !.after = c.after]

\* The head of one loop iteration (lines 250-256), or the call of
\* refreshPendingCount after the loop (line 267): pass record p after the
\* action at index p.i has been dealt with.
NextIteration(p) ==
    IF p.i < Len(p.snap)
    THEN [p EXCEPT !.pc = "fetch", !.i = p.i + 1,
                   !.calls = Append(p.calls, p.snap[p.i + 1].id)]
    ELSE LET c == initDB("count")
         IN  [p EXCEPT !.pc = c.pc, !.after = c.after]

\* The finally block without setIsSyncing(false).
FinallyMut(k, snapOk, s) ==
    /\ isSyncing' = isSyncing
    /\ pass' = [pass EXCEPT ![k] = IdlePass]
    /\ ended' = Summary(pass[k], snapOk, s)

\* `finally { setIsSyncing(false) }` (lines 268-270): the pass in slot k is
\* over.
Finally(k, snapOk, s) ==
    /\ isSyncing' = (IF Attached(k) THEN FALSE ELSE isSyncing)
    /\ pass' = [pass EXCEPT ![k] = IdlePass]
    /\ ended' = Summary(pass[k], snapOk, s)

\* indexedDB.open completes for the pass in slot k (initDB, lines 107-113).
PassOpenDone(k) ==
    /\ UNCHANGED life
    /\ UNCHANGED events
    /\ idb # <<>> /\ Head(idb) = PassTask(k)
    /\ pass[k].pc = "open"
    /\ \E fail \in FaultChoice :
        /\ Opened(fail)
        /\ IF fail
           THEN \* request.onerror: getPendingActions rejects, the outer try
                \* has no catch
                /\ faults' = faults + 1
                /\ Finally(k, FALSE, store)
                /\ idb' = Tail(idb)
                /\ UNCHANGED <<durable, db>>
           ELSE /\ db' = TRUE
                /\ store' = openDB(dbVersion, store)
                /\ dbVersion' = DB_VERSION
                /\ pass' = [pass EXCEPT ![k].pc = pass[k].after,
                                        ![k].after = "none"]
                /\ idb' = IdbAfter(PassTask(k), pass[k].after)
                /\ ended' = NoPass
                /\ UNCHANGED <<keyGen, isSyncing, faults>>
    /\ lastEnq' = NoEnq
    /\ UNCHANGED <<navOnline, isOnline, pendingCount, closureSyncing, enq,
                   ref, okCount, appended, removed, lastRead, starts,
                   crashes>>

\* store.getAll() of line 248 completes: the snapshot, then the first fetch.
PassSnapshotDone(k) ==
    /\ UNCHANGED life
    /\ seen' = NoSeen /\ UNCHANGED events
    /\ idb # <<>> /\ Head(idb) = PassTask(k)
    /\ pass[k].pc = "getAll"
    /\ \E fail \in FaultChoice :
        IF fail
        THEN /\ faults' = faults + 1
             /\ Finally(k, FALSE, store)
             /\ idb' = Tail(idb)
        ELSE LET p == NextIteration([pass[k] EXCEPT
                          !.snap = getPendingActions(store)])
             IN  /\ pass' = [pass EXCEPT ![k] = p]
                 /\ idb' = IdbAfter(PassTask(k), p.pc)
                 /\ ended' = NoPass
                 /\ UNCHANGED <<isSyncing, faults>>
    /\ lastEnq' = NoEnq
    /\ UNCHANGED <<durable, db, navOnline, isOnline, pendingCount,
                   closureSyncing, enq, ref, okCount, appended, removed,
                   lastRead, starts, crashes>>

\* The accepted action left in the store, the loop going on at once.
onResponseOkMut(p) == NextIteration(p)

\* `await removePendingAction(action.id)` (lines 258-260): after a response
\* with response.ok the pass requests the removal and waits for it.
onResponseOk(p) ==
    LET c == initDB("delete")
    IN  [p EXCEPT !.pc = c.pc, !.after = c.after]

\* The loop body without its try/catch: a rejected fetch leaves the loop.
innerCatchMut(outcome) == FALSE

\* `catch (error)` of the loop body (lines 261-264): whether what the body
\* threw is caught inside the loop.
innerCatch(outcome) == TRUE

\* fetch(action.endpoint, ...) settles for the pass in slot k (lines 252-264):
\* a thrown error goes to the inner catch, a response is tested with
\* response.ok.  The fields ok/failed and okCount record what the network
\* did, whatever the code makes of it.
PassFetchDone(k, outcome) ==
    /\ UNCHANGED life
    /\ seen' = NoSeen /\ UNCHANGED events
    /\ pass[k].pc = "fetch"
    /\ LET act == pass[k].snap[pass[k].i]
           p   == [pass[k] EXCEPT
                     !.ok = IF outcome = "ok" THEN @ \cup {act.id} ELSE @,
                     !.failed = IF outcome = "ok" THEN @ ELSE @ \cup {act.id}]
           q   == IF outcome # "network_error" /\ ResponseOk(outcome)
                  THEN onResponseOk(p)
                  ELSE NextIteration(p)
       IN  /\ IF outcome = "network_error" /\ ~innerCatch(outcome)
              THEN \* the error leaves the outer try: finally, then rejection
                   /\ isSyncing' = (IF Attached(k) THEN FALSE ELSE isSyncing)
                   /\ pass' = [pass EXCEPT ![k] = IdlePass]
                   /\ ended' = Summary([p EXCEPT !.threw = TRUE], TRUE, store)
                   /\ UNCHANGED idb
              ELSE /\ pass' = [pass EXCEPT ![k] = q]
                   /\ idb' = IF q.pc \in IdbPcs
                             THEN Append(idb, PassTask(k)) ELSE idb
                   /\ ended' = NoPass
                   /\ UNCHANGED isSyncing
           /\ okCount' = IF outcome = "ok"
                         THEN [okCount EXCEPT ![act.id] =
                                   IF @ < 2 THEN @ + 1 ELSE @]
                         ELSE okCount
    /\ lastEnq' = NoEnq
    /\ UNCHANGED <<durable, db, navOnline, isOnline, pendingCount,
                   closureSyncing, enq, ref, appended, removed, lastRead,
                   counts>>

\* store.delete(action.id) of line 259 completes; its rejection is thrown
\* inside the loop body's try.
PassDeleteDone(k) ==
    /\ UNCHANGED life
    /\ seen' = NoSeen /\ UNCHANGED events
    /\ idb # <<>> /\ Head(idb) = PassTask(k)
    /\ pass[k].pc = "delete"
    /\ LET p   == pass[k]
           act == p.snap[p.i]
       IN  \E fail \in FaultChoice :
            /\ IF fail
               THEN /\ faults' = faults + 1
                    /\ UNCHANGED <<store, removed>>
               ELSE /\ store' = removePendingAction(store, act.id)
                    /\ removed' = removed \cup {act.id}
                    /\ UNCHANGED faults
            /\ IF fail /\ ~innerCatch("storage_error")
               THEN \* the error leaves the outer try: finally, then rejection
                    /\ isSyncing' = (IF Attached(k) THEN FALSE
                                                     ELSE isSyncing)
                    /\ pass' = [pass EXCEPT ![k] = IdlePass]
                    /\ ended' = Summary([p EXCEPT !.delFailed = @ \cup {act.id},
                                                  !.threw = TRUE], TRUE, store)
                    /\ idb' = Tail(idb)
               ELSE \* caught by the inner catch when rejected: kept in the
                    \* queue, the loop goes on
                    LET q == NextIteration(IF fail
                                 THEN [p EXCEPT !.delFailed = @ \cup {act.id}]
                                 ELSE p)
                    IN  /\ pass' = [pass EXCEPT ![k] = q]
                        /\ idb' = IdbAfter(PassTask(k), q.pc)
                        /\ ended' = NoPass
                        /\ UNCHANGED isSyncing
    /\ lastEnq' = NoEnq
    /\ UNCHANGED <<dbVersion, keyGen, db, navOnline, isOnline, pendingCount,
                   closureSyncing, enq, ref, okCount, appended, lastRead,
                   starts, crashes>>

\* refreshPendingCount counting up instead of reading the store.
refreshPendingCountMut(s) == pendingCount + 1

\* setPendingCount(actions.length) of refreshPendingCount (lines 187-194):
\* the count a successful read of store s gives.
refreshPendingCount(s) == Len(getPendingActions(s))

\* The read of refreshPendingCount at the end of the pass completes
\* (line 267), then the finally block runs.
PassCountDone(k) ==
    /\ UNCHANGED life
    /\ seen' = NoSeen /\ UNCHANGED events
    /\ idb # <<>> /\ Head(idb) = PassTask(k)
    /\ pass[k].pc = "count"
    /\ \E fail \in FaultChoice :
        /\ IF fail
           THEN /\ faults' = faults + 1
                /\ lastRead' = (IF Attached(k) THEN "error" ELSE lastRead)
                /\ UNCHANGED pendingCount
           ELSE /\ pendingCount' = (IF Attached(k)
                                        THEN refreshPendingCount(store)
                                        ELSE pendingCount)
                /\ lastRead' = (IF Attached(k) THEN "ok" ELSE lastRead)
                /\ UNCHANGED faults
        /\ Finally(k, TRUE, store)
        /\ idb' = Tail(idb)
    /\ lastEnq' = NoEnq
    /\ UNCHANGED <<durable, db, navOnline, isOnline, closureSyncing, enq,
                   ref, okCount, appended, removed, starts, crashes>>

\* ---- the Queue Status Facade: queueAction, refreshPendingCount ----

\* queueActionResult with the failure swallowed.
queueActionResultMut(addResolved) == "true"

\* What queueAction returns (lines 231-238): true after addPendingAction
\* resolved (refreshPendingCount never rejects), false from the catch.
queueActionResult(addResolved) == IF addResolved THEN "true" ELSE "false"

\* queueAction returns.
Return(e, addResolved) ==
    /\ lastEnq' = [ret |-> queueActionResult(addResolved), id |-> e.id,
                   data |-> e.data, gained |-> e.gained]
    /\ enq' = IdleEnq

\* The UI calls queueAction(type, endpoint, method, data) (line 230).
Enqueue(d) ==
    /\ mounted /\ UNCHANGED life
    /\ seen' = NoSeen /\ UNCHANGED events
    /\ ended' = NoPass /\ lastEnq' = NoEnq
    /\ enq.pc = "idle"
    /\ keyGen <= MaxActions
    /\ LET c == initDB("add")
       IN  enq' = [IdleEnq EXCEPT !.pc = c.pc, !.after = c.after, !.data = d]
    /\ idb' = Append(idb, EnqTask)
    /\ UNCHANGED <<durable, db, navOnline, hook, pass, ref, hist, counts>>

\* indexedDB.open completes for queueAction.
EnqOpenDone ==
    /\ UNCHANGED life
    /\ UNCHANGED events
    /\ idb # <<>> /\ Head(idb) = EnqTask
    /\ enq.pc = "open"
    /\ \E fail \in FaultChoice :
        /\ Opened(fail)
        /\ IF fail
           THEN /\ faults' = faults + 1
                /\ Return(enq, FALSE)
                /\ idb' = Tail(idb)
                /\ UNCHANGED <<durable, db>>
           ELSE /\ db' = TRUE
                /\ store' = openDB(dbVersion, store)
                /\ dbVersion' = DB_VERSION
                /\ enq' = [enq EXCEPT !.pc = enq.after, !.after = "none"]
                /\ idb' = IdbAfter(EnqTask, enq.after)
                /\ lastEnq' = NoEnq
                /\ UNCHANGED <<keyGen, faults>>
    /\ ended' = NoPass
    /\ UNCHANGED <<navOnline, hook, pass, ref, okCount, appended, removed,
                   lastRead, starts, crashes>>

\* store.add of addPendingAction completes (lines 132-138).
EnqAddDone ==
    /\ UNCHANGED life
    /\ seen' = NoSeen /\ UNCHANGED events
    /\ idb # <<>> /\ Head(idb) = EnqTask
    /\ enq.pc = "add"
    /\ \E fail \in FaultChoice :
        IF fail
        THEN /\ faults' = faults + 1
             /\ Return(enq, FALSE)
             /\ idb' = Tail(idb)
             /\ UNCHANGED <<store, keyGen, appended, pass>>
        ELSE LET c   == initDB("count")
                 key == nextKey(keyGen, store)
                 s   == addPendingAction(store, key, enq.data)
             IN  /\ store' = s
                 /\ keyGen' = keyGen + 1
                 /\ appended' = appended \cup
                        {[id |-> key, data |-> enq.data, epoch |-> crashes]}
                 /\ enq' = [enq EXCEPT !.pc = c.pc, !.after = c.after,
                                       !.id = key,
                                       !.gained = Cardinality(s \ store)]
                 /\ idb' = IdbAfter(EnqTask, c.pc)
                 \* passes that already hold their snapshot
                 /\ pass' = [k \in 1..MaxPasses |->
                        IF pass[k].pc \in {"fetch", "delete", "count"}
                        THEN [pass[k] EXCEPT !.enqueued = @ \cup {key}]
                        ELSE pass[k]]
                 /\ lastEnq' = NoEnq
                 /\ UNCHANGED <<faults>>
    /\ ended' = NoPass
    /\ UNCHANGED <<dbVersion, db, navOnline, hook, ref, okCount, removed,
                   lastRead, starts, crashes>>

\* The read of `await refreshPendingCount()` (line 233) completes.
EnqCountDone ==
    /\ UNCHANGED life
    /\ seen' = NoSeen /\ UNCHANGED events
    /\ idb # <<>> /\ Head(idb) = EnqTask
    /\ enq.pc = "count"
    /\ \E fail \in FaultChoice :
        IF fail
        THEN /\ faults' = faults + 1
             /\ lastRead' = "error"
             /\ UNCHANGED pendingCount
        ELSE /\ pendingCount' = refreshPendingCount(store)
             /\ lastRead' = "ok"
             /\ UNCHANGED faults
    /\ Return(enq, TRUE)
    /\ idb' = Tail(idb)
    /\ ended' = NoPass
    /\ UNCHANGED <<durable, db, navOnline, isOnline, isSyncing,
                   closureSyncing, pass, ref, okCount, appended, removed,
                   starts, crashes>>

\* indexedDB.open completes for the mount effect's refreshPendingCount
\* (line 221).
RefOpenDone ==
    /\ UNCHANGED life
    /\ UNCHANGED events
    /\ idb # <<>> /\ Head(idb) = RefTask
    /\ ref.pc = "open"
    /\ \E fail \in FaultChoice :
        /\ Opened(fail)
        /\ IF fail
           THEN \* caught and logged (lines 191-193)
                /\ faults' = faults + 1
                /\ lastRead' = "error"
                /\ ref' = IdleRef
                /\ idb' = Tail(idb)
                /\ UNCHANGED <<durable, db>>
           ELSE /\ db' = TRUE
                /\ store' = openDB(dbVersion, store)
                /\ dbVersion' = DB_VERSION
                /\ ref' = [pc |-> ref.after, after |-> "none"]
                /\ idb' = IdbAfter(RefTask, ref.after)
                /\ UNCHANGED <<keyGen, faults, lastRead>>
    /\ ended' = NoPass
    /\ lastEnq' = NoEnq
    /\ UNCHANGED <<navOnline, hook, pass, enq, okCount, appended, removed,
                   starts, crashes>>

\* The read of the mount effect's refreshPendingCount completes.
RefCountDone ==
    /\ UNCHANGED life
    /\ seen' = NoSeen /\ UNCHANGED events
    /\ idb # <<>> /\ Head(idb) = RefTask
    /\ ref.pc = "count"
    /\ \E fail \in FaultChoice :
        IF fail
        THEN /\ faults' = faults + 1
             /\ lastRead' = "error"
             /\ UNCHANGED pendingCount
        ELSE /\ pendingCount' = refreshPendingCount(store)
             /\ lastRead' = "ok"
             /\ UNCHANGED faults
    /\ ref' = IdleRef
    /\ idb' = Tail(idb)
    /\ ended' = NoPass
    /\ lastEnq' = NoEnq
    /\ UNCHANGED <<durable, db, navOnline, isOnline, isSyncing,
                   closureSyncing, pass, enq, okCount, appended, removed,
                   starts, crashes>>

\* ---- the Connectivity Monitor and the triggers ----

SyncTag  == "sync-pending-actions"
Tags     == {SyncTag, "other-tag"}
MsgTypes == {"SYNC_AVAILABLE", "OTHER"}

\* What the step that called syncPendingActions leaves in `seen`: the caller
\* when a pass was started, nothing otherwise.
Caller(src, tag) ==
    IF pass' # pass
    THEN [NoSeen EXCEPT !.src = src, !.tag = tag, !.isOnline = isOnline,
                        !.onLine = navOnline, !.started = TRUE]
    ELSE NoSeen

\* The connection comes or goes: navigator.onLine changes at once and the
\* platform queues the window event that handleOnline / handleOffline will
\* receive.
Connectivity ==
    /\ UNCHANGED life
    /\ ended' = NoPass /\ lastEnq' = NoEnq /\ seen' = NoSeen
    /\ Len(events) < MaxEvents
    /\ navOnline' = ~navOnline
    /\ events' = Append(events, IF navOnline THEN "offline" ELSE "online")
    /\ UNCHANGED <<durable, db, hook, tasks, hist, counts>>

\* handleOnline without its state update.
handleOnlineMut(cur) == cur

\* setIsOnline(true) of handleOnline (line 199): the isOnline state when
\* line 201 calls syncPendingActions.
handleOnline(cur) == TRUE

\* window 'online' event: handleOnline (lines 198-202).  The effect ran at
\* mount only, so the syncPendingActions it calls is the first render's,
\* whose isSyncing is false; its guard reads navigator.onLine.
Online ==
    /\ mounted /\ UNCHANGED life
    /\ ended' = NoPass /\ lastEnq' = NoEnq
    /\ events # <<>> /\ Head(events) = "online"
    /\ events' = Tail(events)
    /\ isOnline' = handleOnline(isOnline)
    /\ syncPendingActions(navOnline, FALSE)
    /\ seen' = [NoSeen EXCEPT !.src = "online", !.isOnline = isOnline',
                              !.onLine = navOnline, !.started = pass' # pass]
    /\ UNCHANGED <<durable, db, navOnline, pendingCount, closureSyncing, enq,
                   ref, hist, faults, crashes>>

\* handleOffline without its state update.
handleOfflineMut(cur) == cur

\* setIsOnline(false) of handleOffline (line 205), its only statement.
handleOffline(cur) == FALSE

\* window 'offline' event: handleOffline (lines 204-206).
Offline ==
    /\ mounted /\ UNCHANGED life
    /\ ended' = NoPass /\ lastEnq' = NoEnq /\ seen' = NoSeen
    /\ events # <<>> /\ Head(events) = "offline"
    /\ events' = Tail(events)
    /\ isOnline' = handleOffline(isOnline)
    /\ UNCHANGED <<durable, db, navOnline, pendingCount, isSyncing,
                   closureSyncing, tasks, hist, counts>>

\* The service worker posting SYNC_AVAILABLE for every 'sync' event.
swSyncMut(tag) == "SYNC_AVAILABLE"

\* The service worker's 'sync' listener (auth.js lines 310-325): the type of
\* the message it posts to the clients for an event with this tag.
swSync(tag) == IF tag = "sync-pending-actions" THEN "SYNC_AVAILABLE"
                                               ELSE "none"

\* The 'message' listeners on navigator.serviceWorker: the mount effect adds
\* an anonymous one (line 213) and its cleanup (lines 223-226) removes the
\* window listeners only.
Listeners == leaked + (IF mounted THEN 1 ELSE 0)

\* The n lowest of the slots S, lowest first.
RECURSIVE Pick(_, _)
Pick(S, n) == IF n = 0 THEN <<>>
              ELSE <<Min(S)>> \o Pick(S \ {Min(S)}, n - 1)

\* One message dispatched to every listener, oldest first: each calls the
\* first-render syncPendingActions of its own instance (lines 243-248),
\* whose isSyncing is false; setIsSyncing(true) reaches the mounted
\* instance only.
syncEach(onLine) ==
    IF ~onLine
    THEN UNCHANGED <<isSyncing, pass, idb, starts>>
    ELSE LET n == Listeners
         IN  /\ starts + n <= MaxStarts
             /\ Cardinality(FreeSlots) >= n
             /\ LET slot == Pick(FreeSlots, n)
                    c    == initDB("getAll")
                IN  /\ pass' = [k \in 1..MaxPasses |->
                           IF \E j \in 1..n : slot[j] = k
                           THEN [IdlePass EXCEPT
                                   !.pc = c.pc, !.after = c.after,
                                   !.owner =
                                      IF \E j \in 1..leaked : slot[j] = k
                                      THEN "leaked" ELSE "hook"]
                           ELSE pass[k]]
                    /\ idb' = idb \o [j \in 1..n |-> PassTask(slot[j])]
             /\ isSyncing' = (IF mounted THEN TRUE ELSE isSyncing)
             /\ starts' = starts + n

\* The client's service-worker message listener (lines 213-217), which calls
\* the first render's syncPendingActions.
onmessage(type) ==
    IF type = "SYNC_AVAILABLE"
    THEN IF leaked = 0 THEN syncPendingActions(navOnline, FALSE)
                       ELSE syncEach(navOnline)
    ELSE UNCHANGED <<isSyncing, pass, idb, starts>>

\* The browser fires 'sync' with this tag in the service worker, whose
\* message, if it posts one, reaches the client's listener.
SyncHint(tag) ==
    /\ UNCHANGED life
    /\ UNCHANGED events
    /\ ended' = NoPass /\ lastEnq' = NoEnq
    /\ IF swSync(tag) # "none"
       THEN onmessage(swSync(tag))
       ELSE UNCHANGED <<isSyncing, pass, idb, starts>>
    /\ seen' = Caller("hint", tag)
    /\ UNCHANGED <<durable, db, navOnline, isOnline, pendingCount,
                   closureSyncing, enq, ref, hist, faults, crashes>>

\* Any other message of the service worker reaches the client's listener.
Message(type) ==
    /\ UNCHANGED life
    /\ UNCHANGED events
    /\ ended' = NoPass /\ lastEnq' = NoEnq
    /\ onmessage(type)
    /\ seen' = Caller("message", type)
    /\ UNCHANGED <<durable, db, navOnline, isOnline, pendingCount,
                   closureSyncing, enq, ref, hist, faults, crashes>>

\* triggerSync (lines 274-278), as handed to the UI by the latest render.
Trigger ==
    /\ mounted /\ UNCHANGED life
    /\ UNCHANGED events
    /\ ended' = NoPass /\ lastEnq' = NoEnq
    /\ IF navOnline
       THEN syncPendingActions(navOnline, closureSyncing)
       ELSE UNCHANGED <<isSyncing, pass, idb, starts>>
    /\ seen' = Caller("manual", "none")
    /\ UNCHANGED <<durable, db, navOnline, isOnline, pendingCount,
                   closureSyncing, enq, ref, hist, faults, crashes>>

\* React re-renders the hook: the callbacks are re-created over the current
\* isSyncing (useCallback dependencies, line 271).
Render ==
    /\ mounted /\ UNCHANGED life
    /\ seen' = NoSeen /\ UNCHANGED events
    /\ ended' = NoPass /\ lastEnq' = NoEnq
    /\ closureSyncing # isSyncing
    /\ closureSyncing' = isSyncing
    /\ UNCHANGED <<durable, db, navOnline, isOnline, pendingCount, isSyncing,
                   tasks, hist, counts>>

\* The process dies and the application is loaded again: module state and
\* React state start afresh (lines 97, 182-184), the mount effect calls
\* refreshPendingCount (line 221).  Only the database survives.
Crash ==
    /\ crashes < MaxCrashes
    /\ crashes' = crashes + 1
    /\ db' = FALSE
    /\ mounted' = TRUE /\ leaked' = 0
    /\ isOnline' = initialOnline(navOnline)
    /\ pendingCount' = 0 /\ isSyncing' = FALSE
    /\ closureSyncing' = FALSE
    /\ pass' = [k \in 1..MaxPasses |-> IdlePass]
    /\ enq' = IdleEnq
    /\ ref' = [pc |-> "open", after |-> "count"]
    /\ idb' = <<RefTask>>
    /\ events' = <<>>
    /\ lastEnq' = NoEnq /\ ended' = NoPass /\ seen' = NoSeen
    /\ lastRead' = "none"
    /\ UNCHANGED <<durable, navOnline, okCount, appended, removed, starts,
                   faults>>

Next ==
    \/ Connectivity \/ Online \/ Offline
    \/ \E tag \in Tags : SyncHint(tag)
    \/ \E type \in MsgTypes : Message(type)
    \/ Trigger \/ Render
    \/ \E d \in Data : Enqueue(d)
    \/ EnqOpenDone \/ EnqAddDone \/ EnqCountDone
    \/ RefOpenDone \/ RefCountDone
    \/ \E k \in 1..MaxPasses : PassOpenDone(k)
    \/ \E k \in 1..MaxPasses : PassSnapshotDone(k)
    \/ \E k \in 1..MaxPasses, o \in Outcomes : PassFetchDone(k, o)
    \/ \E k \in 1..MaxPasses : PassDeleteDone(k)
    \/ \E k \in 1..MaxPasses : PassCountDone(k)
    \/ Crash

Spec == Init /\ [][Next]_vars

\* Every IndexedDB request and every fetch settles: the completion of some
\* pending call is a step that eventually happens while one is pending.
Settle ==
    \/ EnqOpenDone \/ EnqAddDone \/ EnqCountDone
    \/ RefOpenDone \/ RefCountDone
    \/ \E k \in 1..MaxPasses : PassOpenDone(k)
    \/ \E k \in 1..MaxPasses : PassSnapshotDone(k)
    \/ \E k \in 1..MaxPasses, o \in Outcomes : PassFetchDone(k, o)
    \/ \E k \in 1..MaxPasses : PassDeleteDone(k)
    \/ \E k \in 1..MaxPasses : PassCountDone(k)

\* The steps of a process that keeps running: every step but the restart.
FairNext ==
    \/ Connectivity \/ Online \/ Offline
    \/ \E tag \in Tags : SyncHint(tag)
    \/ \E type \in MsgTypes : Message(type)
    \/ Trigger \/ Render
    \/ \E d \in Data : Enqueue(d)
    \/ Settle

FairSpec == Init /\ [][FairNext]_vars /\ WF_vars(Settle)

\* Every IndexedDB request settles.  The fetch of lines 252-256 is given no
\* AbortSignal and nothing races it with a timer, so it settles only when
\* the network answers, which nothing makes happen.
SettleStorage ==
    \/ EnqOpenDone \/ EnqAddDone \/ EnqCountDone
    \/ RefOpenDone \/ RefCountDone
    \/ \E k \in 1..MaxPasses : PassOpenDone(k)
    \/ \E k \in 1..MaxPasses : PassSnapshotDone(k)
    \/ \E k \in 1..MaxPasses : PassDeleteDone(k)
    \/ \E k \in 1..MaxPasses : PassCountDone(k)

HangSpec == Init /\ [][FairNext]_vars /\ WF_vars(SettleStorage)

\* ---- the component's life cycle ----

\* The component using the hook unmounts while no queueAction and no mount
\* refresh is in flight: the effect's cleanup (lines 223-226) removes the
\* window listeners and leaves the service-worker listener in place; the
\* passes in flight go on without a component to update.
Unmount ==
    /\ mounted /\ leaked < MaxUnmounts
    /\ enq.pc = "idle" /\ ref.pc = "idle"
    /\ mounted' = FALSE /\ leaked' = leaked + 1
    /\ pass' = [k \in 1..MaxPasses |->
           IF pass[k].pc # "idle" /\ pass[k].owner = "hook"
           THEN [pass[k] EXCEPT !.owner = "gone"] ELSE pass[k]]
    /\ lastEnq' = NoEnq /\ ended' = NoPass /\ seen' = NoSeen
    /\ UNCHANGED <<durable, db, navOnline, events, hook, enq, ref, idb,
                   hist, counts>>

\* A component using the hook mounts again: fresh React state (lines
\* 182-184), the module-level `db` as it is, and the mount effect, which
\* adds its listeners and calls refreshPendingCount (line 221).
Mount ==
    /\ ~mounted
    /\ mounted' = TRUE
    /\ isOnline' = initialOnline(navOnline)
    /\ pendingCount' = 0 /\ isSyncing' = FALSE
    /\ closureSyncing' = FALSE
    /\ LET c == initDB("count")
       IN  ref' = [pc |-> c.pc, after |-> c.after]
    /\ idb' = Append(idb, RefTask)
    /\ lastRead' = "none"
    /\ lastEnq' = NoEnq /\ ended' = NoPass /\ seen' = NoSeen
    /\ UNCHANGED <<durable, db, navOnline, events, pass, enq, okCount,
                   appended, removed, counts, leaked>>

\* A window event dispatched while no instance is mounted finds no
\* listener.
NoListener ==
    /\ ~mounted
    /\ events # <<>>
    /\ events' = Tail(events)
    /\ lastEnq' = NoEnq /\ ended' = NoPass /\ seen' = NoSeen
    /\ UNCHANGED <<durable, db, navOnline, hook, tasks, hist, counts, life>>

\* The steps of a process whose component is unmounted and mounted again.
MountNext == FairNext \/ Unmount \/ Mount \/ NoListener

MountSpec == Init /\ [][MountNext]_vars

\* ---- a second client ----

\* The SYNC_AVAILABLE message the service worker posts to every client
\* (auth.js lines 316-325) reaches the listener of another tab (lines
\* 213-217), whose first-render syncPendingActions starts a pass of that
\* tab over the shared database.  The other tab opened its connection when
\* it mounted; its pass is followed here once this tab holds one too, so
\* that initDB resolves at once in both.
TabSync ==
    /\ db /\ navOnline
    /\ starts < MaxStarts
    /\ FreeSlots # {}
    /\ LET k == Min(FreeSlots)
       IN  /\ pass' = [pass EXCEPT ![k] =
                  [IdlePass EXCEPT !.pc = "getAll", !.owner = "tab"]]
           /\ idb' = Append(idb, PassTask(k))
    /\ starts' = starts + 1
    /\ lastEnq' = NoEnq /\ ended' = NoPass /\ seen' = NoSeen
    /\ UNCHANGED <<durable, db, navOnline, events, hook, enq, ref, hist,
                   faults, crashes, life>>

\* The steps of two clients on one database.
TabsNext == FairNext \/ TabSync

TabsSpec == Init /\ [][TabsNext]_vars

TypeOK ==
    /\ dbVersion \in 0..DB_VERSION
    /\ keyGen \in 1..(MaxActions + 1)
    /\ Ids(store) \subseteq 1..MaxActions
    /\ pendingCount \in 0..MaxActions
    /\ \A k \in 1..MaxPasses :
          pass[k].pc \in {"idle", "open", "getAll", "fetch", "delete", "count"}
    /\ Len(events) <= MaxEvents
    /\ \A n \in 1..Len(events) : events[n] \in {"online", "offline"}
    /\ mounted \in BOOLEAN /\ leaked \in 0..MaxUnmounts
    /\ \A k \in 1..MaxPasses :
          pass[k].owner \in {"hook", "gone", "leaked", "tab"}

\* ---- properties ----

InLoop(k)   == pass[k].pc \in {"fetch", "delete"}
Quiescent   == /\ idb = <<>> /\ enq.pc = "idle" /\ ref.pc = "idle"
               /\ \A k \in 1..MaxPasses : pass[k].pc = "idle"
Ascending(q) == \A a, b \in 1..Len(q) : a < b => q[a] < q[b]
Listed(r)   == \E n \in 1..Len(getPendingActions(store)) :
                   getPendingActions(store)[n] = r
\* the process has restarted and nothing has opened the database since
JustRestarted == crashes >= 1 /\ ~db

\* C1: at any time at most one sync pass is inside the replay loop; a
\* syncPendingActions call made while an earlier pass is unfinished issues no
\* network request.
C1_OnePassInLoop == Cardinality({k \in 1..MaxPasses : InLoop(k)}) <= 1

\* C2: no queued action is replayed successfully more than once.
C2_AtMostOneSuccess == \A n \in 1..MaxActions : okCount[n] <= 1

\* C3: a record leaves the store only in the completion of the delete that
\* follows its own replay's success response; every other step, a replay
\* with a non-success outcome included, leaves it in the store.
C3_RemovedOnlyAfterOwnSuccess ==
    [][\A r \in store : r \notin store' =>
          \E k \in 1..MaxPasses :
              /\ pass[k].pc = "delete"
              /\ Head(idb) = PassTask(k)
              /\ pass[k].snap[pass[k].i] = r
              /\ r.id \in pass[k].ok]_vars

\* a record has been removed by the delete that followed its success
C3_Witness == \E n \in removed : okCount[n] >= 1 /\ n \notin Ids(store)

\* C4: every record whose append resolved is returned unchanged by
\* listAll() in every later state, restarts and re-initialisation included,
\* unless it was removed after its replay.
C4_Durability ==
    \A a \in appended :
        a.id \notin removed => Listed([id |-> a.id, data |-> a.data])

\* a record appended before a restart is listed by the re-opened store
C4_Witness ==
    /\ db
    /\ \E a \in appended :
          a.epoch < crashes /\ Listed([id |-> a.id, data |-> a.data])

\* C5: when a pass ends with nothing enqueued meanwhile, every action of its
\* snapshot was attempted and the store holds exactly the snapshot actions
\* whose replay failed (stated for the passes all of whose removals
\* succeeded).
C5_NoHeadOfLineBlocking ==
    (ended.done /\ ended.snapOk /\ ended.enqueued = {}
        /\ ended.delFailed = {})
    => /\ ended.calls = ended.snap
       /\ ended.storeIds = ended.failed

\* C6 as stated: the snapshot is replayed in ascending id order, and if the
\* network accepts every action and nothing is enqueued during the pass the
\* store is empty when the pass ends.
C6_Original ==
    (ended.done /\ ended.snapOk)
    => /\ ended.calls = ended.snap /\ Ascending(ended.calls)
       /\ (ended.ok = Range(ended.snap) /\ ended.enqueued = {})
              => ended.storeIds = {}

\* C6 amended: the snapshot is replayed in ascending id order, and if the
\* network accepts every action, every removal succeeds and nothing is
\* enqueued during the pass, the store is empty when the pass ends.
C6_FIFO ==
    (ended.done /\ ended.snapOk)
    => /\ ended.calls = ended.snap /\ Ascending(ended.calls)
       /\ (ended.ok = Range(ended.snap) /\ ended.enqueued = {}
              /\ ended.delFailed = {})
              => ended.storeIds = {}

\* a pass over two actions, both accepted, has ended with the store empty
C6_Witness ==
    /\ ended.done /\ ended.snapOk /\ Len(ended.calls) >= 2
    /\ ended.ok = Range(ended.snap) /\ ended.storeIds = {}

\* C7 as stated: pendingCount equals the number of records in every state.
C7_Original == pendingCount = Len(getPendingActions(store))

\* C7 amended: pendingCount equals the number of records whenever no
\* enqueue, refresh or pass is in flight and the last count read succeeded.
C7_CountAtRest ==
    (Quiescent /\ lastRead = "ok")
    => pendingCount = Len(getPendingActions(store))

\* at rest after a partial sync: one record removed, one still counted
C7_Witness ==
    /\ Quiescent /\ lastRead = "ok"
    /\ removed # {} /\ pendingCount = 1 /\ Cardinality(store) = 1

\* C8: an action enqueued while a pass is in progress is not replayed in
\* that pass and is still in the store when that pass ends.
C8_SnapshotSemantics ==
    ended.done
    => /\ ended.enqueued \subseteq ended.storeIds
       /\ ended.enqueued \cap Range(ended.calls) = {}

C10_EnqueueResult ==
    lastEnq.ret # "none"
    => /\ lastEnq.ret \in {"true", "false"}
       /\ lastEnq.ret = "true" =>
              /\ lastEnq.gained = 1
              /\ \E a \in appended :
                    a.id = lastEnq.id /\ a.data = lastEnq.data
       /\ lastEnq.ret = "false" =>
              /\ lastEnq.gained = 0
              /\ \A a \in appended : a.id # lastEnq.id

\* queueAction has returned false after a storage failure
C10_Witness == lastEnq.ret = "false" /\ faults >= 1 /\ lastEnq.gained = 0

\* C11 as stated: while isOnline is false, no call of syncPendingActions or
\* of triggerSync starts a pass or sets isSyncing.
C11_Original ==
    [][(starts' # starts \/ (~isSyncing /\ isSyncing')) => isOnline']_vars

\* C11 amended: while navigator.onLine is false, no call of
\* syncPendingActions or of triggerSync starts a pass, sets isSyncing or
\* changes the store; isOnline can still be false when a pass starts, in the
\* time between the connection's return and the dispatch of 'online'.
C11_OfflineNoOp ==
    [][(starts' # starts \/ (~isSyncing /\ isSyncing'))
          => navOnline /\ navOnline' /\ store' = store]_vars

\* offline with a queued action at rest: whatever trigger comes starts
\* nothing
C11_Witness ==
    /\ ~navOnline /\ ~isOnline /\ events = <<>>
    /\ Quiescent /\ store # {} /\ pendingCount >= 1
    /\ ~isSyncing /\ starts = 0

\* C12: a replay that fails (rejected fetch or non-success status) never
\* makes syncPendingActions reject: a pass that got its snapshot attempts
\* every action of it and returns normally.
C12_ReplayFailureContained ==
    (ended.done /\ ended.snapOk)
    => ~ended.threw /\ ended.calls = ended.snap

\* a pass with one replay accepted and one failed has returned normally
C12_Witness ==
    /\ ended.done /\ ended.snapOk /\ ~ended.threw
    /\ ended.ok # {} /\ ended.failed # {}

\* the 'online' event has just started the first pass, with one action
\* queued, counted, and nothing else going on
DrainStarts ==
    /\ seen.src = "online" /\ seen.started
    /\ Cardinality(store) = 1 /\ pendingCount = 1
    /\ enq.pc = "idle" /\ faults = 0 /\ crashes = 0
\* the network rejected a replay, a storage request failed, the process
\* restarted or the UI queued something more
Disturbed ==
    \/ faults > 0 \/ crashes > 0 \/ enq.pc # "idle"
    \/ ended.failed # {}
    \/ \E k \in 1..MaxPasses : pass[k].failed # {}

\* C13: an 'online' event dispatched while the connection is up starts a
\* pass, and once it has started one with a single action queued and counted
\* (pendingCount = 1), the store is eventually empty with pendingCount = 0,
\* provided the network accepts the replay, no storage request fails, the
\* process is not restarted and nothing more is queued.
C13_OfflineThenDrain ==
    /\ []((seen.src = "online" /\ seen.onLine) => seen.started)
    /\ DrainStarts ~> ((store = {} /\ pendingCount = 0) \/ Disturbed)

\* queued while offline, then the connection is back and 'online' has
\* started the first pass over the one action
C13_Witness ==
    /\ DrainStarts /\ starts = 1 /\ isOnline /\ navOnline
    /\ \E a \in appended : a.id \in Ids(store)

\* C14: every started pass ends, whatever its replays did: its slot is idle
\* again and isSyncing is false, given that every storage request and every
\* fetch settles.
C14_PassTerminates ==
    \A k \in 1..MaxPasses :
        (pass[k].pc # "idle") ~> (pass[k].pc = "idle" /\ ~isSyncing)

\* a pass with a failed replay is over: idle, the failed action still
\* queued and the connection up for the next trigger
C14_Witness ==
    /\ ended.done /\ ended.failed # {} /\ ended.failed \subseteq ended.storeIds
    /\ ~isSyncing /\ \A k \in 1..MaxPasses : pass[k].pc = "idle"
    /\ navOnline

\* C15: isSyncing is true exactly while a pass is in progress.
C15_SyncingIffPass ==
    isSyncing <=> \E k \in 1..MaxPasses : pass[k].pc # "idle"

\* C16: store.delete of an id that is not in the store succeeds and leaves
\* the store as it is, so a second removal of the same id changes nothing.
C16_IdempotentRemoval ==
    /\ [](\A n \in 1..MaxActions :
             LET once == removePendingAction(store, n)
             IN  /\ n \notin Ids(store) => once = store
                 /\ removePendingAction(once, n) = once)
    /\ [][\A k \in 1..MaxPasses :
             (/\ pass[k].pc = "delete" /\ pass'[k].pc # "delete"
              /\ crashes' = crashes /\ faults' = faults
              /\ pass[k].snap[pass[k].i].id \notin Ids(store))
             => /\ store' = store
                /\ pass'[k].delFailed = pass[k].delFailed]_vars

\* two passes had the same action accepted and both removals succeeded, the
\* later one on an id already gone
C16_Witness ==
    /\ ended.done /\ faults = 0 /\ crashes = 0
    /\ \A k \in 1..MaxPasses : pass[k].pc = "idle"
    /\ \E n \in removed :
          okCount[n] = 2 /\ n \in ended.ok /\ n \notin ended.delFailed

\* C17: every id given to a new record is greater than every id given
\* before, whether those records are still stored, were removed, or were
\* appended before a restart; no id is given twice.
C17_IdsNeverReused ==
    /\ [](\A a, b \in appended : a.id = b.id => a = b)
    /\ [][\A r \in store' \ store : \A a \in appended : r.id > a.id]_vars

\* after a restart, with record 1 removed and the store empty, the next
\* record has just been given id 2
C17_Witness ==
    /\ crashes >= 1 /\ 1 \in removed
    /\ enq.pc = "count" /\ enq.id = 2 /\ Ids(store) = {2}
    /\ \E a \in appended : a.id = 2 /\ a.epoch >= 1

\* C18: a pass started by the service worker's 'sync' event was started for
\* the tag sync-pending-actions, through a SYNC_AVAILABLE message, with the
\* connection up; an event with another tag or a message of another type
\* starts nothing.  No 'online' event is needed for it.
C18_SyncHintTriggers ==
    /\ (seen.src = "hint" /\ seen.started)
           => seen.tag = SyncTag /\ seen.onLine
    /\ (seen.src = "message" /\ seen.started)
           => seen.tag = "SYNC_AVAILABLE" /\ seen.onLine

\* the 'sync' event has started the first pass ever, no window event pending
C18_Witness ==
    /\ seen.src = "hint" /\ seen.started /\ seen.tag = SyncTag
    /\ starts = 1 /\ crashes = 0 /\ events = <<>> /\ isSyncing

C20_OneHandle == seen.src = "open" => ~seen.second

\* C21 as stated: when a pass issues the request for an action of its
\* snapshot, every earlier action of the snapshot whose replay it saw
\* accepted is out of the store.
C21_Original ==
    \A k \in 1..MaxPasses :
        pass[k].pc = "fetch" =>
            \A j \in 1..(pass[k].i - 1) :
                pass[k].snap[j].id \in pass[k].ok
                    => pass[k].snap[j].id \notin Ids(store)

\* C21 amended: when a pass issues the request for an action of its
\* snapshot, the removal of every earlier action whose replay it saw
\* accepted has been requested and has settled: the record is out of the
\* store, or its removal was rejected.
C21_RemovalBeforeNext ==
    \A k \in 1..MaxPasses :
        pass[k].pc = "fetch" =>
            \A j \in 1..(pass[k].i - 1) :
                pass[k].snap[j].id \in pass[k].ok
                    => \/ pass[k].snap[j].id \notin Ids(store)
                       \/ pass[k].snap[j].id \in pass[k].delFailed

\* the second request of a pass is out, the first action accepted and
\* already removed, the second still stored
C21_Witness ==
    \E k \in 1..MaxPasses :
        /\ pass[k].pc = "fetch" /\ pass[k].i = 2
        /\ pass[k].snap[1].id \in pass[k].ok
        /\ pass[k].snap[1].id \notin Ids(store)
        /\ pass[k].snap[2].id \in Ids(store)

\* C22: a pass does not wait for ever on a network call: when the network
\* never answers, the attempt is given up after a bounded wait and the pass
\* goes on to its end, with isSyncing false.
C22_BoundedWait ==
    \A k \in 1..MaxPasses :
        (pass[k].pc = "fetch") ~> (pass[k].pc = "idle" /\ ~isSyncing)

NoRepeat(q) == \A a, b \in 1..Len(q) : a # b => q[a] # q[b]

\* C23: a pass attempts no action twice; an action never accepted by the
\* network is never taken out of the store, and every pass that ends after
\* taking its snapshot has attempted it (unless it was queued after the
\* snapshot) and has seen it fail.
C23_OncePerPassNoEviction ==
    /\ \A k \in 1..MaxPasses : NoRepeat(pass[k].calls)
    /\ \A a \in appended : okCount[a.id] = 0 => a.id \in Ids(store)
    /\ (ended.done /\ ended.snapOk)
           => /\ NoRepeat(ended.calls)
              /\ \A a \in appended :
                    (okCount[a.id] = 0 /\ a.id \notin ended.enqueued)
                        => /\ a.id \in Range(ended.calls)
                           /\ a.id \in ended.failed

\* a pass has ended with an action refused, another pass has attempted the
\* same action and was refused too, and the action is still queued
C23_Witness ==
    \E n \in Ids(store) :
        /\ okCount[n] = 0
        /\ ended.done /\ n \in ended.failed
        /\ \E k \in 1..MaxPasses : n \in pass[k].failed

\* the hook as its first render and its mount effect leave it
FreshStart ==
    /\ ~isSyncing /\ isOnline = navOnline /\ pendingCount = 0
    /\ \A k \in 1..MaxPasses : pass[k].pc = "idle"
    /\ ref.pc = "open" /\ ref.after = "count"
    /\ \E n \in 1..Len(idb) : idb[n] = RefTask

\* C24: at the first start and after every restart, isSyncing is false,
\* isOnline is navigator.onLine, no pass is running, the store is what it
\* was and a read of the store has been requested for pendingCount; when
\* that read succeeds pendingCount is the number of stored records.
C24_StateAfterStart ==
    /\ FreshStart
    /\ [][crashes' # crashes => (FreshStart' /\ store' = store)]_vars
    /\ [][(ref.pc # "idle" /\ ref'.pc = "idle"
             /\ crashes' = crashes /\ faults' = faults)
            => pendingCount' = Cardinality(store)]_vars

\* restarted between an accepted replay and its removal: the action is
\* still stored, nothing is syncing and the count is being read
C24_Witness ==
    /\ JustRestarted /\ FreshStart /\ faults = 0 /\ navOnline
    /\ \E r \in store : okCount[r.id] >= 1

\* C25: a pass whose snapshot read (the open or the getAll) fails ends at
\* once: it has issued no network request, the step leaves the store and
\* the replay history as they were, and isSyncing is false.
C25_SnapshotReadFails ==
    /\ []((ended.done /\ ~ended.snapOk)
             => /\ ended.calls = <<>> /\ ended.ok = {} /\ ended.failed = {}
                /\ ~isSyncing)
    /\ [][(ended'.done /\ ~ended'.snapOk)
             => store' = store /\ okCount' = okCount]_vars

\* online with an action queued, a pass has just ended on a failed snapshot
\* read
C25_Witness ==
    /\ ended.done /\ ~ended.snapOk /\ faults >= 1
    /\ store # {} /\ ended.storeIds = Ids(store)
    /\ ~isSyncing /\ navOnline

\* C26: a rejected removal does not end the pass: the step leaves the
\* store as it is (a record that was queued stays queued) and the pass
\* running, and a pass with a rejected removal
\* ends without having thrown, every action of its snapshot attempted and
\* isSyncing false.
C26_RemovalFailureContained ==
    /\ [](ended.done /\ ended.delFailed # {}
             => /\ ~ended.threw /\ ended.calls = ended.snap
                /\ ~isSyncing)
    /\ [][\A k \in 1..MaxPasses :
             (pass[k].pc = "delete" /\ pass'[k].pc # "delete"
                 /\ faults' # faults)
             => /\ store' = store
                /\ pass'[k].pc # "idle"
                /\ pass'[k].delFailed
                       = pass[k].delFailed \cup {pass[k].snap[pass[k].i].id}]_vars

\* the removal of the first of two actions was rejected, the second was
\* attempted all the same and the first is still queued
C26_Witness ==
    /\ ended.done /\ ~ended.threw /\ Len(ended.calls) = 2
    /\ ended.calls[1] \in ended.delFailed
    /\ ended.calls[1] \in ended.storeIds
    /\ ~isSyncing

\* C27: whenever nothing is in flight and the last store read succeeded,
\* pendingCount is the number of records in the store, and every refresh
\* that changes pendingCount sets it to the number of records stored at
\* that moment, so that the refresh completing last is never a stale one.
C27_QuiescentCount ==
    /\ []((Quiescent /\ lastRead = "ok")
             => pendingCount = Cardinality(store))
    /\ [][(lastRead' = "ok" /\ pendingCount' # pendingCount
              /\ crashes' = crashes)
             => pendingCount' = Cardinality(store')]_vars

\* a pass ends at rest after an enqueue ran during it: the refresh of the
\* enqueue and the refresh of the pass overlapped
C27_Witness ==
    /\ ended.done /\ ended.enqueued # {} /\ ended.ok # {}
    /\ Quiescent /\ lastRead = "ok"
    /\ pendingCount = Cardinality(store) /\ pendingCount >= 1

\* C30: the step that handles an offline event sets isOnline to false and
\* changes nothing else: no pass starts, the store, pendingCount, isSyncing
\* and every pass in progress are as before; and a pass that took its
\* snapshot ends with every action of the snapshot attempted.
C30_OfflineOnlyFlag ==
    /\ [][(events # <<>> /\ Head(events) = "offline"
              /\ events' = Tail(events) /\ crashes' = crashes)
             => /\ ~isOnline'
                /\ store' = store /\ pendingCount' = pendingCount
                /\ isSyncing' = isSyncing /\ closureSyncing' = closureSyncing
                /\ pass' = pass /\ idb' = idb /\ starts' = starts]_vars
    /\ []((ended.done /\ ended.snapOk) => ended.calls = ended.snap)

\* a pass over two actions ends after the connection was lost and the
\* offline event handled while it ran
C30_Witness ==
    /\ ended.done /\ ended.snapOk /\ Len(ended.calls) = 2
    /\ ~navOnline /\ events = <<>> /\ ~isOnline
    /\ ~isSyncing

\* C28: no pass is ever run by an instance that was unmounted before the
\* call that started it, and no step starts more than one pass.
C28_NoPassAfterTeardown ==
    /\ [](\A k \in 1..MaxPasses : pass[k].owner # "leaked")
    /\ [][starts' <= starts + 1]_vars

\* C29: a pass of another tab and a pass of this tab never both hold an ok
\* response for the same action.
C29_OneClientReplays ==
    \A k1, k2 \in 1..MaxPasses :
        (pass[k1].owner = "tab" /\ pass[k2].owner # "tab")
            => pass[k1].ok \cap pass[k2].ok = {}

====
